---- MODULE Spec2Model ----
(***************************************************************************)
(* QR scanning pipeline of the inventory scanner: the Scan page            *)
(* (pages/scan.tsx), the QRScanner component with its Decode Strategy      *)
(* Runner handleScan (components/qr/qr-scanner.tsx) and the Frame Source   *)
(* WebcamCapture (components/qr/webcam-capture.tsx).                       *)
(*                                                                         *)
(* React state is modelled as it behaves: a setState call queues the new   *)
(* value (the *Pend variables), the component keeps rendering the          *)
(* committed value until React commits, and mounting, unmounting and the   *)
(* effects (the capture timer) happen at the commit.  Updates made in a    *)
(* click handler are committed within the same step; updates made in a     *)
(* timer callback or after an await are committed in a later task.         *)
(***************************************************************************)
EXTENDS Integers, Sequences, FiniteSets, TLC

VARIABLES
  page,       \* Scan page state as rendered (committed)
  pagePend,   \* Scan page state with the queued updates applied
  scanner,    \* the mounted QRScanner/WebcamCapture instance, as rendered
  scanPend,   \* its state with the queued updates applied
  hist,       \* what the mounted session has done so far (observation)
  timers,     \* handles of the live window.setInterval timers
  lookups,    \* onScanResult calls waiting on their fetch
  toggles,    \* applyConstraints calls in flight
  trackTorch, \* torch value last applied to the camera track
  lastScan,   \* the handleScan call of the step just taken, if any
  lastStop,   \* the last stop() call on the scanner handle in that step
  lastToggle, \* the toggleTorch call that ran in that step, if any
  runnerIn,   \* one tick on its own: what the browser and the decoder give
  runnerOut,  \* one tick on its own: what capture() and handleScan did
  filterIn,   \* one frame on its own: its pixels
  filterOut   \* one frame on its own: what a filter or the strategies made of it

vars == <<page, pagePend, scanner, scanPend, hist, timers, lookups, toggles,
          trackTorch, lastScan, lastStop, lastToggle, runnerIn, runnerOut,
          filterIn, filterOut>>

(***************************************************************************)
(* Bounds of the model.                                                    *)
(***************************************************************************)
MaxLookups == 1
MaxToggles == 1
MaxInFlight == 2
TimerIds == 2

MaxSide == 3
MaxIterations == 2

(***************************************************************************)
(* Values.                                                                 *)
(***************************************************************************)
NoText == "null"
\* decoded texts: a plain one and one that is all whitespace
Payloads == {"QR1", " "}

\* String(text).trim() of scan.tsx:141
Trim(text) == IF text = " " THEN "" ELSE text

\* Outcome of one decode attempt: jsQR returns null, returns {data: ""},
\* returns {data: payload}, throws, or a filter of the chain throws first.
DecoderOutcomes == {"none", "empty", "decoderThrows"} \cup Payloads
AttemptOutcomes == DecoderOutcomes \cup {"filterThrows"}

NumStrategies == 5
FallbackIndex == NumStrategies + 1

StrategyNames ==
  <<"raw", "enhanced", "adaptive", "adaptive-close", "invert-adaptive">>

\* the filters each strategy applies to its copy of the frame, in order
StrategyChain ==
  << <<>>,
     <<"enhanceContrast", "unsharpMask">>,
     <<"enhanceContrast", "unsharpMask", "adaptiveThresholdBradley">>,
     <<"adaptiveThresholdBradley", "binaryClose">>,
     <<"invertImageData", "adaptiveThresholdBradley">> >>

\* The frames of the model: what each of the six attempts yields on them.
\* The raw strategy and the fallback run no filter.
FrameOutcomes ==
  { f \in [1..FallbackIndex -> AttemptOutcomes] :
      /\ f[1] # "filterThrows"
      /\ f[FallbackIndex] # "filterThrows" }

\* the callbacks handed to QRScanner: does onResult / onStop throw
Callbacks == [resultThrows : BOOLEAN, stopThrows : BOOLEAN]
PageCallbacks == [resultThrows |-> FALSE, stopThrows |-> FALSE]

(***************************************************************************)
(* Decode Strategy Runner: handleScan of qr-scanner.tsx.                   *)
(* The run is a record: the strategies attempted, the decoder calls made,  *)
(* the onResult calls, the number of onStop calls, and the component       *)
(* state (decoded, lastStrategy) as set by the run.                        *)
(***************************************************************************)
EmptyRun(decoded, lastStrategy) ==
  [ attempts     |-> <<>>,
    calls        |-> <<>>,
    reports      |-> <<>>,
    stops        |-> 0,
    decoded      |-> decoded,
    lastStrategy |-> lastStrategy,
    threw        |-> FALSE ]

\* stopScanning: webcamRef.current is never attached (WebcamCapture takes
\* no ref and exposes no handle), so the call on it does nothing; then the
\* parent is notified.  A throwing onStop propagates to the caller.
stopScanning(run, cb) ==
  [run EXCEPT !.stops = @ + 1, !.threw = cb.stopThrows]

\* the body of `if (code && code.data) { ... }`
ReportDecode(run, text, name, cb) ==
  LET set == [run EXCEPT !.decoded = text, !.lastStrategy = name,
                         !.reports = Append(@, [text |-> text, strategy |-> name])]
  IN  IF cb.resultThrows THEN [set EXCEPT !.threw = TRUE]
      ELSE stopScanning(set, cb)

\* the loop without its `return` after a decode
AttemptStrategy_NoReturn(run, i, outcome, cb) ==
  LET tried == [run EXCEPT !.attempts = Append(@, StrategyNames[i])]
      called == [tried EXCEPT !.calls = Append(@,
                    [ strategy |-> StrategyNames[i],
                      image |-> StrategyChain[i],
                      inversionAttempts |-> "dontInvert" ])]
  IN  IF outcome = "filterThrows" THEN [run |-> tried, done |-> FALSE]
      ELSE IF outcome \in {"none", "empty", "decoderThrows"}
      THEN [run |-> called, done |-> FALSE]
      ELSE [ run |-> [ReportDecode(called, outcome, StrategyNames[i], cb)
                        EXCEPT !.threw = FALSE],
             done |-> FALSE ]

\* the loop without its try/catch: a throw leaves handleScan
AttemptStrategy_NoCatch(run, i, outcome, cb) ==
  LET tried == [run EXCEPT !.attempts = Append(@, StrategyNames[i])]
      called == [tried EXCEPT !.calls = Append(@,
                    [ strategy |-> StrategyNames[i],
                      image |-> StrategyChain[i],
                      inversionAttempts |-> "dontInvert" ])]
  IN  IF outcome = "filterThrows"
      THEN [run |-> [tried EXCEPT !.threw = TRUE], done |-> TRUE]
      ELSE IF outcome = "decoderThrows"
      THEN [run |-> [called EXCEPT !.threw = TRUE], done |-> TRUE]
      ELSE IF outcome \in {"none", "empty"}
      THEN [run |-> called, done |-> FALSE]
      ELSE LET r == ReportDecode(called, outcome, StrategyNames[i], cb)
           IN  [run |-> r, done |-> TRUE]

\* the loop testing `code` only, not `code.data`
AttemptStrategy_NoDataCheck(run, i, outcome, cb) ==
  LET tried == [run EXCEPT !.attempts = Append(@, StrategyNames[i])]
      called == [tried EXCEPT !.calls = Append(@,
                    [ strategy |-> StrategyNames[i],
                      image |-> StrategyChain[i],
                      inversionAttempts |-> "dontInvert" ])]
  IN  IF outcome = "filterThrows" THEN [run |-> tried, done |-> FALSE]
      ELSE IF outcome \in {"none", "decoderThrows"}
      THEN [run |-> called, done |-> FALSE]
      ELSE LET r == ReportDecode(called, IF outcome = "empty" THEN "" ELSE outcome,
                                 StrategyNames[i], cb)
           IN  IF r.threw THEN [run |-> [r EXCEPT !.threw = FALSE], done |-> FALSE]
               ELSE [run |-> r, done |-> TRUE]

\* one iteration of the for loop: try { fn; decode; report } catch { warn }
\* done tells whether the iteration returned from handleScan
AttemptStrategy(run, i, outcome, cb) ==
  LET tried == [run EXCEPT !.attempts = Append(@, StrategyNames[i])]
      called == [tried EXCEPT !.calls = Append(@,
                    [ strategy |-> StrategyNames[i],
                      image |-> StrategyChain[i],
                      inversionAttempts |-> "dontInvert" ])]
  IN  IF outcome = "filterThrows" THEN [run |-> tried, done |-> FALSE]
      ELSE IF outcome \in {"none", "empty", "decoderThrows"}
      THEN [run |-> called, done |-> FALSE]
      ELSE LET r == ReportDecode(called, outcome, StrategyNames[i], cb)
           IN  IF r.threw THEN [run |-> [r EXCEPT !.threw = FALSE], done |-> FALSE]
               ELSE [run |-> r, done |-> TRUE]

\* the fallback decoding as the strategies do, without inversion
AttemptFallback_DontInvert(run, outcome, cb) ==
  LET tried == [run EXCEPT !.attempts = Append(@, "fallback-jsqr")]
      called == [tried EXCEPT !.calls = Append(@,
                    [ strategy |-> "fallback-jsqr",
                      image |-> <<>>,
                      inversionAttempts |-> "dontInvert" ])]
  IN  IF outcome \in {"none", "empty", "decoderThrows"} THEN called
      ELSE [ReportDecode(called, outcome, "fallback-jsqr", cb) EXCEPT !.threw = FALSE]

\* the fallback testing `code` only, not `code.data`
AttemptFallback_NoDataCheck(run, outcome, cb) ==
  LET tried == [run EXCEPT !.attempts = Append(@, "fallback-jsqr")]
      called == [tried EXCEPT !.calls = Append(@,
                    [ strategy |-> "fallback-jsqr",
                      image |-> <<>>,
                      inversionAttempts |-> "attemptBoth" ])]
  IN  IF outcome \in {"none", "decoderThrows"} THEN called
      ELSE [ReportDecode(called, IF outcome = "empty" THEN "" ELSE outcome,
                         "fallback-jsqr", cb) EXCEPT !.threw = FALSE]

\* the fallback without its try/catch: a throwing decoder leaves handleScan
AttemptFallback_NoCatch(run, outcome, cb) ==
  LET tried == [run EXCEPT !.attempts = Append(@, "fallback-jsqr")]
      called == [tried EXCEPT !.calls = Append(@,
                    [ strategy |-> "fallback-jsqr",
                      image |-> <<>>,
                      inversionAttempts |-> "attemptBoth" ])]
  IN  IF outcome = "decoderThrows" THEN [called EXCEPT !.threw = TRUE]
      ELSE IF outcome \in {"none", "empty"} THEN called
      ELSE ReportDecode(called, outcome, "fallback-jsqr", cb)

\* the fallback: decode the input frame itself with attemptBoth
AttemptFallback(run, outcome, cb) ==
  LET tried == [run EXCEPT !.attempts = Append(@, "fallback-jsqr")]
      called == [tried EXCEPT !.calls = Append(@,
                    [ strategy |-> "fallback-jsqr",
                      image |-> <<>>,
                      inversionAttempts |-> "attemptBoth" ])]
  IN  IF outcome \in {"none", "empty", "decoderThrows"} THEN called
      ELSE [ReportDecode(called, outcome, "fallback-jsqr", cb) EXCEPT !.threw = FALSE]

\* a loop that tries a strategy once more when it threw
RECURSIVE RunStrategies_Retry(_, _, _, _)
RunStrategies_Retry(run, i, frame, cb) ==
  IF i > NumStrategies THEN AttemptFallback(run, frame[FallbackIndex], cb)
  ELSE LET a == AttemptStrategy(run, i, frame[i], cb)
           b == IF ~a.done /\ frame[i] \in {"decoderThrows", "filterThrows"}
                THEN AttemptStrategy(a.run, i, frame[i], cb)
                ELSE a
       IN  IF b.done THEN b.run ELSE RunStrategies_Retry(b.run, i + 1, frame, cb)

RECURSIVE RunStrategies(_, _, _, _)
RunStrategies(run, i, frame, cb) ==
  IF i > NumStrategies THEN AttemptFallback(run, frame[FallbackIndex], cb)
  ELSE LET a == AttemptStrategy(run, i, frame[i], cb)
       IN  IF a.done THEN a.run ELSE RunStrategies(a.run, i + 1, frame, cb)

handleScan(decoded, lastStrategy, frame, cb) ==
  RunStrategies(EmptyRun(decoded, lastStrategy), 1, frame, cb)

\* The frames the session specification draws: the first firstOk - 1
\* attempts fail in one way and every later attempt would decode; on a
\* readable frame the raw attempt decodes, on a hard one only the fallback.
FailAt(mode, i) ==
  IF mode = "filterThrows" /\ i \in {1, FallbackIndex} THEN "decoderThrows" ELSE mode

PrefixFrame(mode, firstOk, text) ==
  [i \in 1..FallbackIndex |-> IF i < firstOk THEN FailAt(mode, i) ELSE text]

SessionFrames ==
  { PrefixFrame(mode, FallbackIndex + 1, "QR1") :
      mode \in {"none", "empty", "decoderThrows", "filterThrows"} }
  \cup { PrefixFrame("none", firstOk, text) :
           firstOk \in {1, FallbackIndex}, text \in Payloads }

BlankFrame == PrefixFrame("none", FallbackIndex + 1, "QR1")

Decodes(frame) == \E i \in 1..FallbackIndex : frame[i] \in Payloads

(***************************************************************************)
(* Frame Source: capture() of webcam-capture.tsx.                          *)
(* A capture case says what the browser gives on this tick.                *)
(***************************************************************************)
HAVE_CURRENT_DATA == 2
ReadyStates == 0..4

CaptureCases ==
  [ video : BOOLEAN, readyState : ReadyStates, ctx : BOOLEAN,
    drawOK : BOOLEAN, readOK : BOOLEAN ]

\* capture() without the try/catch around getImageData
capture_NoReadCatch(c) ==
  IF ~c.video \/ c.readyState < HAVE_CURRENT_DATA THEN [onScan |-> 0, threw |-> FALSE]
  ELSE IF ~c.ctx THEN [onScan |-> 0, threw |-> FALSE]
  ELSE IF ~c.drawOK THEN [onScan |-> 0, threw |-> FALSE]
  ELSE IF ~c.readOK THEN [onScan |-> 0, threw |-> TRUE]
  ELSE [onScan |-> 1, threw |-> FALSE]

\* capture(): how many times onScan is called and whether an error leaves it
capture(c) ==
  IF ~c.video \/ c.readyState < HAVE_CURRENT_DATA THEN [onScan |-> 0, threw |-> FALSE]
  ELSE IF ~c.ctx THEN [onScan |-> 0, threw |-> FALSE]
  ELSE IF ~c.drawOK THEN [onScan |-> 0, threw |-> FALSE]
  ELSE IF ~c.readOK THEN [onScan |-> 0, threw |-> FALSE]
  ELSE [onScan |-> 1, threw |-> FALSE]

(***************************************************************************)
(* Image Filters: image-processing.js (src/unnamed/part_001).              *)
(* An image is a record of its width, its height and its pixels in row     *)
(* order, each pixel the tuple <<R, G, B, A>> of its four bytes.           *)
(***************************************************************************)
\* Math.round of the rational num / den (den > 0): halves go up
Round(num, den) == (2 * num + den) \div (2 * den)

\* a clamp that keeps the low byte, as a plain byte store would
clamp_Wrap(v) == v % 256

clamp(v) == IF v < 0 THEN 0 ELSE IF v > 255 THEN 255 ELSE v

clampX(x, w) == IF x < 0 THEN 0 ELSE IF x >= w THEN w - 1 ELSE x

clampY(y, h) == IF y < 0 THEN 0 ELSE IF y >= h THEN h - 1 ELSE y

\* a store into a Uint8ClampedArray (the value is an integer here)
ToUint8Clamped(v) == IF v < 0 THEN 0 ELSE IF v > 255 THEN 255 ELSE v

\* the coordinates of the pixel at position p of the data, and back
XOf(p, w) == (p - 1) % w
YOf(p, w) == (p - 1) \div w
At(x, y, w) == y * w + x + 1

\* factor * (v - 128) + 128 with factor = 259 (contrast + 255) / 255 (259 - contrast)
enhanceContrastChannel(v, contrast) ==
  ToUint8Clamped(clamp(Round(259 * (contrast + 255) * (v - 128),
                             255 * (259 - contrast)) + 128))

\* works on the image it is given: R, G and B are rewritten, A is left
enhanceContrast(img, contrast) ==
  [img EXCEPT !.data =
     [p \in DOMAIN img.data |->
        << enhanceContrastChannel(img.data[p][1], contrast),
           enhanceContrastChannel(img.data[p][2], contrast),
           enhanceContrastChannel(img.data[p][3], contrast),
           img.data[p][4] >>]]

\* the kernel of unsharpMask: 5 in the middle, -1 on its four sides
SharpenKernel(kx, ky) ==
  IF kx = 0 /\ ky = 0 THEN 5 ELSE IF kx = 0 \/ ky = 0 THEN 0 - 1 ELSE 0

\* the kernel sum for channel c at (x, y), read from the copy of the source
unsharpMaskChannel(img, x, y, c, amount) ==
  LET w == img.width
      h == img.height
      term(kx, ky) ==
        img.data[At(clampX(x + kx, w), clampY(y + ky, h), w)][c]
          * SharpenKernel(kx, ky) * amount
      row(ky) == term(0 - 1, ky) + term(0, ky) + term(1, ky)
  IN  ToUint8Clamped(clamp(row(0 - 1) + row(0) + row(1)))

\* works on the image it is given: R, G and B are rewritten, A is left
unsharpMask(img, amount) ==
  [img EXCEPT !.data =
     [p \in DOMAIN img.data |->
        << unsharpMaskChannel(img, XOf(p, img.width), YOf(p, img.width), 1, amount),
           unsharpMaskChannel(img, XOf(p, img.width), YOf(p, img.width), 2, amount),
           unsharpMaskChannel(img, XOf(p, img.width), YOf(p, img.width), 3, amount),
           img.data[p][4] >>]]

\* an invert that makes its result opaque
invertImageData_Opaque(img) ==
  [ width |-> img.width, height |-> img.height,
    data |-> [p \in DOMAIN img.data |->
                << 255 - img.data[p][1], 255 - img.data[p][2],
                   255 - img.data[p][3], 255 >>] ]

\* a new image: 255 - v on R, G and B, A copied
invertImageData(img) ==
  [ width |-> img.width, height |-> img.height,
    data |-> [p \in DOMAIN img.data |->
                << ToUint8Clamped(255 - img.data[p][1]),
                   ToUint8Clamped(255 - img.data[p][2]),
                   ToUint8Clamped(255 - img.data[p][3]),
                   img.data[p][4] >>] ]

\* Math.round(0.299 R + 0.587 G + 0.114 B)
Gray(px) == Round(299 * px[1] + 587 * px[2] + 114 * px[3], 1000)

\* the gray array (Uint32Array), one value per pixel
GrayArray(img) == [p \in DOMAIN img.data |-> Gray(img.data[p])]

\* the loops that fill integral (Uint32Array of (w + 1)(h + 1) zeros): the
\* cell of (x, y) is the cell above it plus the sum of row y up to x.  The
\* sums of a captured frame (at most 1600 pixels wide, gray at most 255)
\* stay below 2^32, so the array's width does not show.
RECURSIVE FillIntegral(_, _, _, _, _, _, _)
FillIntegral(gray, w, h, x, y, rowSum, integral) ==
  IF y > h THEN integral
  ELSE IF x > w THEN FillIntegral(gray, w, h, 1, y + 1, 0, integral)
  ELSE LET sum == rowSum + gray[At(x - 1, y - 1, w)]
       IN  FillIntegral(gray, w, h, x + 1, y, sum,
             [integral EXCEPT ![y * (w + 1) + x + 1] =
                integral[(y - 1) * (w + 1) + x + 1] + sum])

Integral(gray, w, h) ==
  FillIntegral(gray, w, h, 1, 1, 0, [i \in 1..((w + 1) * (h + 1)) |-> 0])

Max(a, b) == IF a >= b THEN a ELSE b
Min(a, b) == IF a <= b THEN a ELSE b

\* a threshold that lets the gray value through where it is not dark
adaptiveThresholdAt_KeepGray(gray, integral, w, h, x, y, windowSize, tPct) ==
  LET half == windowSize \div 2
      y0 == Max(0, y - half)
      y1 == Min(h - 1, y + half)
      x0 == Max(0, x - half)
      x1 == Min(w - 1, x + half)
      count == (x1 - x0 + 1) * (y1 - y0 + 1)
      sum == integral[(y1 + 1) * (w + 1) + (x1 + 1) + 1]
               - integral[y0 * (w + 1) + (x1 + 1) + 1]
               - integral[(y1 + 1) * (w + 1) + x0 + 1]
               + integral[y0 * (w + 1) + x0 + 1]
      val == gray[At(x, y, w)]
  IN  IF val * count * 100 < sum * (100 - tPct) THEN 0 ELSE val

\* a threshold that also blackens a pixel just at the limit
adaptiveThresholdAt_Inclusive(gray, integral, w, h, x, y, windowSize, tPct) ==
  LET half == windowSize \div 2
      y0 == Max(0, y - half)
      y1 == Min(h - 1, y + half)
      x0 == Max(0, x - half)
      x1 == Min(w - 1, x + half)
      count == (x1 - x0 + 1) * (y1 - y0 + 1)
      sum == integral[(y1 + 1) * (w + 1) + (x1 + 1) + 1]
               - integral[y0 * (w + 1) + (x1 + 1) + 1]
               - integral[(y1 + 1) * (w + 1) + x0 + 1]
               + integral[y0 * (w + 1) + x0 + 1]
      val == gray[At(x, y, w)]
  IN  IF val * count * 100 <= sum * (100 - tPct) THEN 0 ELSE 255

\* half = Math.floor(windowSize / 2)
WindowHalf(windowSize) == windowSize \div 2

\* count: the pixels of the window of (x, y), clipped to the image
WindowCount(w, h, x, y, windowSize) ==
  LET half == WindowHalf(windowSize)
      y0 == Max(0, y - half)
      y1 == Min(h - 1, y + half)
      x0 == Max(0, x - half)
      x1 == Min(w - 1, x + half)
  IN  (x1 - x0 + 1) * (y1 - y0 + 1)

\* a window sum that does not add the corner back
WindowSum_NoCorner(integral, w, h, x, y, windowSize) ==
  LET half == WindowHalf(windowSize)
      y0 == Max(0, y - half)
      y1 == Min(h - 1, y + half)
      x0 == Max(0, x - half)
      x1 == Min(w - 1, x + half)
  IN  integral[(y1 + 1) * (w + 1) + (x1 + 1) + 1]
        - integral[y0 * (w + 1) + (x1 + 1) + 1]
        - integral[(y1 + 1) * (w + 1) + x0 + 1]

\* sum: the four lookups in the integral table
WindowSum(integral, w, h, x, y, windowSize) ==
  LET half == WindowHalf(windowSize)
      y0 == Max(0, y - half)
      y1 == Min(h - 1, y + half)
      x0 == Max(0, x - half)
      x1 == Min(w - 1, x + half)
  IN  integral[(y1 + 1) * (w + 1) + (x1 + 1) + 1]
        - integral[y0 * (w + 1) + (x1 + 1) + 1]
        - integral[(y1 + 1) * (w + 1) + x0 + 1]
        + integral[y0 * (w + 1) + x0 + 1]

\* outv of the pixel at (x, y); t is given in hundredths, and
\* val < mean * (1 - t) is compared in exact arithmetic
adaptiveThresholdAt(gray, integral, w, h, x, y, windowSize, tPct) ==
  LET count == WindowCount(w, h, x, y, windowSize)
      sum == WindowSum(integral, w, h, x, y, windowSize)
      val == gray[At(x, y, w)]
  IN  IF val * count * 100 < sum * (100 - tPct) THEN 0 ELSE 255

\* a new image: every pixel black or white, opaque
adaptiveThresholdBradley(img, windowSize, tPct) ==
  LET w == img.width
      h == img.height
      gray == GrayArray(img)
      integral == Integral(gray, w, h)
  IN  [ width |-> w, height |-> h,
        data |-> [p \in DOMAIN img.data |->
                    LET outv == adaptiveThresholdAt(gray, integral, w, h, XOf(p, w),
                                                    YOf(p, w), windowSize, tPct)
                    IN  <<outv, outv, outv, 255>>] ]

\* the neighbours of (x, y) inside the image, itself included
Inside(x, y, w, h) ==
  { q \in (0 - 1 .. 1) \X (0 - 1 .. 1) :
      /\ x + q[1] >= 0 /\ x + q[1] < w
      /\ y + q[2] >= 0 /\ y + q[2] < h }

\* a dilation by the four direct neighbours only
dilate_Cross(bits, w, h) ==
  [p \in DOMAIN bits |->
     IF \E q \in Inside(XOf(p, w), YOf(p, w), w, h) :
          /\ q[1] = 0 \/ q[2] = 0
          /\ bits[At(XOf(p, w) + q[1], YOf(p, w) + q[2], w)] = 1
     THEN 1 ELSE 0]

\* on when some neighbour inside the image is on
dilate(bits, w, h) ==
  [p \in DOMAIN bits |->
     IF \E q \in Inside(XOf(p, w), YOf(p, w), w, h) :
          bits[At(XOf(p, w) + q[1], YOf(p, w) + q[2], w)] = 1
     THEN 1 ELSE 0]

\* an erosion that passes over the neighbours outside the image
erode_SkipOutside(bits, w, h) ==
  [p \in DOMAIN bits |->
     IF \A q \in Inside(XOf(p, w), YOf(p, w), w, h) :
          bits[At(XOf(p, w) + q[1], YOf(p, w) + q[2], w)] = 1
     THEN 1 ELSE 0]

\* on when all nine neighbours are inside the image and on
erode(bits, w, h) ==
  [p \in DOMAIN bits |->
     IF /\ Cardinality(Inside(XOf(p, w), YOf(p, w), w, h)) = 9
        /\ \A q \in Inside(XOf(p, w), YOf(p, w), w, h) :
             bits[At(XOf(p, w) + q[1], YOf(p, w) + q[2], w)] = 1
     THEN 1 ELSE 0]

RECURSIVE Dilations(_, _, _, _)
Dilations(bits, w, h, it) ==
  IF it <= 0 THEN bits ELSE Dilations(dilate(bits, w, h), w, h, it - 1)

RECURSIVE Erosions(_, _, _, _)
Erosions(bits, w, h, it) ==
  IF it <= 0 THEN bits ELSE Erosions(erode(bits, w, h), w, h, it - 1)

\* a close whose loops run once before they test the count
binaryClose_AtLeastOnce(img, iterations) ==
  LET w == img.width
      h == img.height
      src == [p \in DOMAIN img.data |-> IF img.data[p][1] > 128 THEN 1 ELSE 0]
      cur == Erosions(Dilations(src, w, h, Max(iterations, 1)), w, h,
                      Max(iterations, 1))
  IN  [ width |-> w, height |-> h,
        data |-> [p \in DOMAIN cur |->
                    LET v == IF cur[p] = 1 THEN 255 ELSE 0
                    IN  <<v, v, v, 255>>] ]

\* a new image: R > 128 read as on, dilated and then eroded
binaryClose(img, iterations) ==
  LET w == img.width
      h == img.height
      src == [p \in DOMAIN img.data |-> IF img.data[p][1] > 128 THEN 1 ELSE 0]
      cur == Erosions(Dilations(src, w, h, iterations), w, h, iterations)
  IN  [ width |-> w, height |-> h,
        data |-> [p \in DOMAIN cur |->
                    LET v == IF cur[p] = 1 THEN 255 ELSE 0
                    IN  <<v, v, v, 255>>] ]

(***************************************************************************)
(* The strategies of handleScan on pixels.  Images are objects: the heap   *)
(* is the sequence of the images allocated so far, and an image is named   *)
(* by its place in it.  enhanceContrast and unsharpMask write into the     *)
(* image they are given; the other filters allocate their result.          *)
(***************************************************************************)
Contrast == 36
SharpenAmount == 1
WindowSize == 41
SensitivityPct == 12
CloseIterations == 1

\* new ImageData(...)
NewImageData(heap, img) == [ heap |-> Append(heap, img), id |-> Len(heap) + 1 ]

\* a strategy that works on the frame itself instead of a copy
CopyImage_Alias(heap, id) == [ heap |-> heap, id |-> id ]

\* new ImageData(new Uint8ClampedArray(id.data), id.width, id.height)
CopyImage(heap, id) == NewImageData(heap, heap[id])

\* one filter call of a strategy, with the arguments the strategies give
ApplyFilter(name, heap, id) ==
  IF name = "enhanceContrast"
  THEN [ heap |-> [heap EXCEPT ![id] = enhanceContrast(@, Contrast)], id |-> id ]
  ELSE IF name = "unsharpMask"
  THEN [ heap |-> [heap EXCEPT ![id] = unsharpMask(@, SharpenAmount)], id |-> id ]
  ELSE IF name = "adaptiveThresholdBradley"
  THEN NewImageData(heap, adaptiveThresholdBradley(heap[id], WindowSize, SensitivityPct))
  ELSE IF name = "binaryClose"
  THEN NewImageData(heap, binaryClose(heap[id], CloseIterations))
  ELSE NewImageData(heap, invertImageData(heap[id]))

RECURSIVE ApplyChain(_, _, _)
ApplyChain(chain, heap, id) ==
  IF chain = <<>> THEN [ heap |-> heap, id |-> id ]
  ELSE LET r == ApplyFilter(Head(chain), heap, id)
       IN  ApplyChain(Tail(chain), r.heap, r.id)

\* strat.fn(imageData): raw hands the frame on as it is, the others copy it
\* and run their filters on the copy
StrategyFn(i, heap, id) ==
  IF StrategyChain[i] = <<>> THEN [ heap |-> heap, id |-> id ]
  ELSE LET c == CopyImage(heap, id)
       IN  ApplyChain(StrategyChain[i], c.heap, c.id)

\* all five strategies and the fallback on the frame heap[1], none of them
\* decoding: the image each decoder call is given, and the frame as it is
\* after each attempt
RECURSIVE RunFilters(_, _, _, _)
RunFilters(heap, i, given, frameAfter) ==
  IF i > NumStrategies
  THEN [ given |-> Append(given, heap[1]), frameAfter |-> Append(frameAfter, heap[1]) ]
  ELSE LET r == StrategyFn(i, heap, 1)
       IN  RunFilters(r.heap, i + 1, Append(given, r.heap[r.id]),
                      Append(frameAfter, r.heap[1]))

\* the pixels and the frames of the model
Opaque(v) == <<v, v, v, 255>>

Pixels ==
  { Opaque(0), Opaque(128), Opaque(129), Opaque(255),
    <<255, 0, 0, 255>>, <<40, 200, 90, 7>> }

Patterns == {"checker", "rows", "columns"}

\* two pixels laid out in a pattern
PatternFrame(w, h, pattern, a, b) ==
  [ width |-> w, height |-> h,
    data |-> [p \in 1..(w * h) |->
                LET k == IF pattern = "checker" THEN XOf(p, w) + YOf(p, w)
                         ELSE IF pattern = "rows" THEN YOf(p, w)
                         ELSE XOf(p, w)
                IN  IF k % 2 = 0 THEN a ELSE b] ]

\* one pixel b at place k among pixels a
SpotFrame(w, h, k, a, b) ==
  [ width |-> w, height |-> h,
    data |-> [p \in 1..(w * h) |-> IF p = k THEN b ELSE a] ]

\* black and white frames deep enough to hold a pixel MaxIterations away
\* from every edge
DeepSide == 2 * MaxIterations + 1

DeepFrames ==
  { SpotFrame(DeepSide, DeepSide, k, a, b) :
      k \in 1..(DeepSide * DeepSide),
      a \in {Opaque(0), Opaque(255)}, b \in {Opaque(0), Opaque(255)} }
  \cup { PatternFrame(DeepSide, DeepSide, pattern, Opaque(0), Opaque(255)) :
           pattern \in Patterns }

Frames ==
  DeepFrames \cup
  { PatternFrame(w, h, pattern, a, b) :
      w \in 1..MaxSide, h \in 1..MaxSide, pattern \in Patterns,
      a \in Pixels, b \in Pixels }
  \cup UNION { { SpotFrame(w, h, k, a, b) :
                   k \in 1..(w * h), a \in Pixels, b \in {Opaque(0), Opaque(255)} } :
                 w \in 1..MaxSide, h \in 1..MaxSide }

WindowSizes == {2, 3, WindowSize}
Sensitivities == {0, SensitivityPct, 15}

(***************************************************************************)
(* State of the components.                                                *)
(***************************************************************************)
InitPage ==
  [ scanning |-> FALSE, decoded |-> NoText, resultOpen |-> FALSE, found |-> FALSE ]

\* QRScanner (decoded, lastStrategy) with its WebcamCapture (stream,
\* torchAvailable, torchOn, and the timer handle its effect holds)
Unmounted ==
  [ mounted |-> FALSE, decoded |-> NoText, lastStrategy |-> "",
    stream |-> FALSE, torchAvailable |-> FALSE, torchOn |-> FALSE, timer |-> 0 ]

FreshScanner(id) == [Unmounted EXCEPT !.mounted = TRUE, !.timer = id]

\* onResult calls of the mounted session (0, 1, or more), and whether its
\* stop() was called
NoHist == [ results |-> 0, stopped |-> FALSE ]

NoScan == [ valid |-> FALSE ]
NoStop == [ valid |-> FALSE ]
NoToggle == [ valid |-> FALSE ]
NoFrame == [ valid |-> FALSE ]

Cap2(n) == IF n > 2 THEN 2 ELSE n

\* a scanner view that stays rendered when scanning is cleared
ScannerShown_IgnoreScanning(p) == ~p.resultOpen /\ p.decoded = NoText

\* the scanner view of scan.tsx:472 is rendered
ScannerShown(p) == ~p.resultOpen /\ p.scanning /\ p.decoded = NoText

\* what a handler works on: the queued page and scanner state, the
\* session's record, the live timers and the lookups in flight
Work == [ pp |-> pagePend, sp |-> scanPend, hist |-> hist, timers |-> timers,
          lookups |-> lookups, lastStop |-> NoStop ]

\* the session state the claims speak of
Snapshot(w) ==
  [ lifecycle |-> IF w.pp.scanning THEN "armed" ELSE "terminated",
    timers |-> w.timers, decoded |-> w.sp.decoded,
    lastStrategy |-> w.sp.lastStrategy, results |-> w.hist.results ]

(***************************************************************************)
(* Handlers of the Scan page (scan.tsx) and of QRScanner.                  *)
(***************************************************************************)
\* onStop={() => setScanning(false)}
onStop(w) == [w EXCEPT !.pp.scanning = FALSE]

\* a stop() that flips the scanning flag instead of clearing it
stop_Toggle(w) == [w EXCEPT !.pp.scanning = ~@]

\* the imperative handle: try { webcamRef.current?.stop(); onStop?.() } catch {}
\* webcamRef.current is never attached, so only the notification happens
stop(w) == onStop(w)

\* scannerRef.current?.stop(), observed
CallStop(w) ==
  IF ~scanner.mounted THEN w
  ELSE LET after == stop(w)
       IN  [after EXCEPT !.hist.stopped = TRUE,
                         !.lastStop = [ valid |-> TRUE, before |-> Snapshot(w),
                                        after |-> Snapshot(after),
                                        earlier |-> w.hist.stopped ]]

showResultView(w) ==
  LET opened == [w EXCEPT !.pp.resultOpen = TRUE]
  IN  [CallStop(opened) EXCEPT !.pp.scanning = FALSE]

\* onScanResult up to its first await (or to its end when nothing is
\* awaited); categories: the list the closure holds is not empty
onScanResult(w, text, categories) ==
  LET begun == [w EXCEPT !.pp.decoded = text, !.pp.found = FALSE]
  IN  IF Trim(text) = "" THEN showResultView(begun)
      ELSE IF ~categories THEN [showResultView(begun) EXCEPT !.pp.scanning = FALSE]
      ELSE [begun EXCEPT !.lookups = @ + 1]

\* onScanResult after its fetches: the item was found with the selected
\* column, found without it, or not found (or the lookup failed)
LookupOutcomes == {"found", "foundNoColumn", "notFound"}

onScanResultResume(w, outcome) ==
  LET looked ==
        IF outcome = "found" THEN [w EXCEPT !.pp.found = TRUE]
        ELSE IF outcome = "foundNoColumn"
        THEN showResultView([w EXCEPT !.pp.found = TRUE])
        ELSE showResultView(w)
  IN  [looked EXCEPT !.pp.scanning = FALSE, !.lookups = @ - 1]

\* the onResult calls of a run reach onScanResult, in order
RECURSIVE Report(_, _, _)
Report(w, reports, categories) ==
  IF reports = <<>> THEN w
  ELSE Report(onScanResult([w EXCEPT !.hist.results = Cap2(@ + 1)],
                           Head(reports).text, categories),
              Tail(reports), categories)

\* a frame reaches handleScan of the mounted scanner
DeliverFrame(w, frame, categories) ==
  LET run == handleScan(w.sp.decoded, w.sp.lastStrategy, frame, PageCallbacks)
      set == [w EXCEPT !.sp.decoded = run.decoded,
                       !.sp.lastStrategy = run.lastStrategy]
      reported == Report(set, run.reports, categories)
      after == IF run.stops > 0 THEN onStop(reported) ELSE reported
  IN  [ w |-> after,
        scan |-> [ valid |-> TRUE, decodable |-> Decodes(frame),
                   reports |-> run.reports, stops |-> run.stops,
                   before |-> Snapshot(w), after |-> Snapshot(after),
                   priorResults |-> w.hist.results,
                   priorStopped |-> w.hist.stopped ] ]

(***************************************************************************)
(* The capture timer effect of WebcamCapture and the React commit.         *)
(***************************************************************************)
\* handles differ from one setInterval call to the next
NextTimerId(id) == (id % TimerIds) + 1

\* the effect's cleanup: window.clearInterval(id)
CleanupTimer(live, id) == live \ {id}

\* the effect without its cleanup
RerunTimerEffect_NoCleanup(live, oldId, newId) == live \cup {newId}

\* a dependency changed: the cleanup of the previous run, then setInterval
RerunTimerEffect(live, oldId, newId) == CleanupTimer(live, oldId) \cup {newId}

\* the effect depending on the stream alone
TimerEffectDeps_NoTorch(sp) == <<sp.stream>>

\* the effect's dependencies other than the interval prop, which is fixed
TimerEffectDeps(sp) == <<sp.stream, sp.torchOn>>

\* the timer's callback runs capture() of the component that set it
OwnTimer(id) == scanner.mounted /\ id = scanner.timer

\* a change is queued and not yet rendered
Dirty == pagePend # page \/ scanPend # scanner

\* the handler's updates stay queued: React renders them in a later task
Queue(w) ==
  /\ pagePend' = w.pp
  /\ scanPend' = w.sp
  /\ hist' = w.hist
  /\ lookups' = w.lookups
  /\ lastStop' = w.lastStop
  /\ timers' = w.timers
  /\ UNCHANGED <<page, scanner, toggles, trackTorch>>

\* React renders and commits everything queued: the scanner view is
\* mounted or unmounted as scan.tsx:472 says, and the timer effect runs,
\* re-runs when stream or torchOn changed, or is cleaned up
Flush(w) ==
  /\ page' = w.pp
  /\ pagePend' = w.pp
  /\ lookups' = w.lookups
  /\ lastStop' = w.lastStop
  /\ IF scanner.mounted /\ ScannerShown(w.pp)
     THEN LET rerun == TimerEffectDeps(w.sp) # TimerEffectDeps(scanner)
              next == IF rerun THEN [w.sp EXCEPT !.timer = NextTimerId(@)] ELSE w.sp
          IN  /\ scanner' = next
              /\ scanPend' = next
              /\ hist' = w.hist
              /\ timers' = IF rerun
                           THEN RerunTimerEffect(w.timers, scanner.timer, next.timer)
                           ELSE w.timers
              /\ UNCHANGED <<toggles, trackTorch>>
     ELSE IF scanner.mounted
     THEN /\ scanner' = Unmounted
          /\ scanPend' = Unmounted
          /\ hist' = NoHist
          /\ timers' = CleanupTimer(w.timers, scanner.timer)
          /\ toggles' = [i \in DOMAIN toggles |-> [toggles[i] EXCEPT !.live = FALSE]]
          /\ trackTorch' = FALSE
     ELSE IF ScannerShown(w.pp)
     THEN /\ scanner' = FreshScanner(NextTimerId(0))
          /\ scanPend' = FreshScanner(NextTimerId(0))
          /\ hist' = NoHist
          /\ timers' = w.timers \cup {NextTimerId(0)}
          /\ UNCHANGED <<toggles, trackTorch>>
     ELSE /\ hist' = w.hist
          /\ timers' = w.timers
          /\ UNCHANGED <<scanner, scanPend, toggles, trackTorch>>

\* what the camera can give: no video element once the component is gone,
\* no frame data before the stream has arrived
Possible(c, alive) ==
  /\ c.video => alive
  /\ c.readyState >= HAVE_CURRENT_DATA => scanPend.stream

(***************************************************************************)
(* Actions.                                                                *)
(***************************************************************************)
RunnerIdle ==
  [ c |-> [ video |-> FALSE, readyState |-> 0, ctx |-> TRUE, drawOK |-> TRUE,
            readOK |-> TRUE ],
    frame |-> BlankFrame, cb |-> PageCallbacks ]

NoRun == [ valid |-> FALSE ]

Init ==
  /\ page = InitPage
  /\ pagePend = InitPage
  /\ scanner = Unmounted
  /\ scanPend = Unmounted
  /\ hist = NoHist
  /\ timers = {}
  /\ lookups = 0
  /\ toggles = <<>>
  /\ trackTorch = FALSE
  /\ lastScan = NoScan
  /\ lastStop = NoStop
  /\ lastToggle = NoToggle
  /\ runnerIn = RunnerIdle
  /\ runnerOut = NoRun
  /\ filterIn = NoFrame
  /\ filterOut = NoRun

\* capture() can get as far as onScan: some capture case the camera can give
\* makes it call onScan
CanDeliver(alive) ==
  { c \in CaptureCases : Possible(c, alive) /\ capture(c).onScan > 0 } # {}

\* capture() can return early or swallow an error
CanSkip(alive) ==
  { c \in CaptureCases : Possible(c, alive) /\ capture(c).onScan = 0 } # {}

\* the interval timer fires and capture() skips the tick
TickSkipped ==
  /\ { id \in timers : CanSkip(OwnTimer(id)) } # {}
  /\ Queue(Work)
  /\ lastScan' = NoScan
  /\ lastToggle' = NoToggle
  /\ UNCHANGED <<runnerIn, runnerOut, filterIn, filterOut>>

\* the interval timer fires and capture() hands a frame to handleScan;
\* lists: whether the categories list its onScanResult holds may be non-empty
TickOn(lists) ==
  /\ { id \in timers : CanDeliver(OwnTimer(id)) } # {}
  /\ \E frame \in SessionFrames, categories \in lists :
       LET r == DeliverFrame(Work, frame, categories)
       IN  /\ r.w.lookups <= MaxLookups
           /\ Queue(r.w)
           /\ lastScan' = [source |-> "timer"] @@ r.scan
  /\ lastToggle' = NoToggle
  /\ UNCHANGED <<runnerIn, runnerOut, filterIn, filterOut>>

Tick == TickOn(BOOLEAN)

\* the Capture button of WebcamCapture, and capture() skips
CaptureClickSkipped ==
  /\ scanner.mounted
  /\ CanSkip(TRUE)
  /\ Flush(Work)
  /\ lastScan' = NoScan
  /\ lastToggle' = NoToggle
  /\ UNCHANGED <<runnerIn, runnerOut, filterIn, filterOut>>

\* the Capture button of WebcamCapture, and a frame reaches handleScan
CaptureClickOn(lists) ==
  /\ scanner.mounted
  /\ CanDeliver(TRUE)
  /\ \E frame \in SessionFrames, categories \in lists :
       LET r == DeliverFrame(Work, frame, categories)
       IN  /\ r.w.lookups <= MaxLookups
           /\ Flush(r.w)
           /\ lastScan' = [source |-> "button"] @@ r.scan
  /\ lastToggle' = NoToggle
  /\ UNCHANGED <<runnerIn, runnerOut, filterIn, filterOut>>

CaptureClick == CaptureClickOn(BOOLEAN)

Quiet ==
  /\ lastScan' = NoScan
  /\ lastToggle' = NoToggle
  /\ UNCHANGED <<runnerIn, runnerOut, filterIn, filterOut>>

\* React renders the queued updates
Render ==
  /\ Dirty
  /\ Flush(Work)
  /\ Quiet

\* the Start Camera button
StartCamera ==
  /\ ~page.resultOpen /\ ~page.scanning /\ page.decoded = NoText
  /\ Flush([Work EXCEPT !.pp.decoded = NoText, !.pp.found = FALSE,
                        !.pp.resultOpen = FALSE, !.pp.scanning = TRUE])
  /\ Quiet

\* the Cancel button under the scanner
Cancel ==
  /\ ScannerShown(page)
  /\ Flush([CallStop(Work) EXCEPT !.pp.scanning = FALSE])
  /\ Quiet

\* the Reset button
Reset ==
  /\ ~page.resultOpen
  /\ Flush([Work EXCEPT !.pp.decoded = NoText, !.pp.found = FALSE,
                        !.pp.scanning = FALSE])
  /\ Quiet

closeResultAndReset(w) ==
  [w EXCEPT !.pp.resultOpen = FALSE, !.pp.decoded = NoText,
            !.pp.found = FALSE, !.pp.scanning = FALSE]

\* the OK button of the result view
CloseResult ==
  /\ page.resultOpen
  /\ Flush(closeResultAndReset(Work))
  /\ Quiet

\* the Try again button of the result view
TryAgain ==
  /\ page.resultOpen
  /\ Flush([closeResultAndReset(Work) EXCEPT !.pp.scanning = TRUE])
  /\ Quiet

\* the window regains focus: refreshSelectedColumnFromStorage
WindowFocus ==
  /\ Flush(closeResultAndReset(Work))
  /\ Quiet

\* the fetches of a pending onScanResult are done
LookupDone ==
  /\ lookups > 0
  /\ \E outcome \in LookupOutcomes : Queue(onScanResultResume(Work, outcome))
  /\ Quiet

\* react-webcam hands over the camera stream: handleUserMedia, and the
\* capability effect that follows the render
UserMedia ==
  /\ scanner.mounted /\ ~scanPend.stream
  /\ \E torch \in BOOLEAN :
       Queue([Work EXCEPT !.sp.stream = TRUE, !.sp.torchAvailable = torch])
  /\ Quiet

\* what toggleTorch finds behind the video element: no video track, a track
\* without applyConstraints, or a track it can ask
TorchEnvs == {"noTrack", "noApplyConstraints", "track"}

\* toggleTorch up to its await: does it call applyConstraints
toggleTorchStart(env) == env = "track"

\* a toggleTorch that flips torchOn whatever applyConstraints answers
toggleTorchResume_FlipAnyway(torchOn, resolved) ==
  [ torchOn |-> ~torchOn, threw |-> FALSE ]

\* toggleTorch after its await: applyConstraints resolved or rejected
toggleTorchResume(torchOn, resolved) ==
  [ torchOn |-> IF resolved THEN ~torchOn ELSE torchOn, threw |-> FALSE ]

\* the torch button, with at most max applyConstraints calls in flight
ToggleTorchOn(max) ==
  /\ scanner.mounted /\ scanner.torchAvailable
  /\ \E env \in TorchEnvs :
       IF toggleTorchStart(env)
       THEN /\ Len(toggles) < max
            /\ toggles' = Append(toggles, [want |-> ~scanner.torchOn, live |-> TRUE])
            /\ lastToggle' = [ valid |-> TRUE, outcome |-> "awaiting", threw |-> FALSE,
                               live |-> TRUE,
                               before |-> scanPend.torchOn, after |-> scanPend.torchOn ]
       ELSE /\ toggles' = toggles
            /\ lastToggle' = [ valid |-> TRUE, outcome |-> env, threw |-> FALSE,
                               live |-> TRUE,
                               before |-> scanPend.torchOn, after |-> scanPend.torchOn ]
  /\ lastStop' = NoStop
  /\ lastScan' = NoScan
  /\ UNCHANGED <<page, pagePend, scanner, scanPend, hist, timers, lookups, trackTorch,
                 runnerIn, runnerOut, filterIn, filterOut>>

ToggleTorch == ToggleTorchOn(MaxToggles)

Without(seq, i) == [j \in 1..(Len(seq) - 1) |-> IF j < i THEN seq[j] ELSE seq[j + 1]]

\* applyConstraints resolves or rejects: toggleTorch after its await; the
\* setTorchOn of a component that is gone changes nothing, and the track
\* of a component that is gone is not the track of the session at hand
ToggleSettled ==
  \E i \in DOMAIN toggles, resolved \in BOOLEAN :
    LET r == toggleTorchResume(scanPend.torchOn, resolved)
        next == IF toggles[i].live THEN [scanPend EXCEPT !.torchOn = r.torchOn]
                ELSE scanPend
    IN  /\ toggles' = Without(toggles, i)
        /\ trackTorch' = IF resolved /\ toggles[i].live THEN toggles[i].want
                         ELSE trackTorch
        /\ scanPend' = next
        /\ lastToggle' = [ valid |-> TRUE,
                           outcome |-> IF resolved THEN "resolved" ELSE "rejected",
                           threw |-> r.threw,
                           live |-> toggles[i].live,
                           before |-> scanPend.torchOn, after |-> next.torchOn ]
        /\ lastStop' = NoStop
        /\ lastScan' = NoScan
        /\ UNCHANGED <<page, pagePend, scanner, hist, timers, lookups,
                       runnerIn, runnerOut, filterIn, filterOut>>

\* The scan session with its item lookups; the torch is left alone.
Next ==
  \/ Tick
  \/ TickSkipped
  \/ CaptureClick
  \/ CaptureClickSkipped
  \/ Render
  \/ StartCamera
  \/ Cancel
  \/ Reset
  \/ CloseResult
  \/ TryAgain
  \/ WindowFocus
  \/ LookupDone
  \/ UserMedia

Spec == Init /\ [][Next]_vars

\* The scan session with its torch; the page has loaded no categories, so
\* every onScanResult ends without waiting on a fetch.
TickNoCategories == TickOn({FALSE})

CaptureClickNoCategories == CaptureClickOn({FALSE})

TorchNext ==
  \/ TickNoCategories
  \/ TickSkipped
  \/ CaptureClickNoCategories
  \/ CaptureClickSkipped
  \/ Render
  \/ StartCamera
  \/ Cancel
  \/ Reset
  \/ CloseResult
  \/ TryAgain
  \/ WindowFocus
  \/ UserMedia
  \/ ToggleTorch
  \/ ToggleSettled

TorchSpec == Init /\ [][TorchNext]_vars

\* The torch button on its own, pressed again while applyConstraints calls
\* are in flight; no frame is captured.
RapidToggleTorch == ToggleTorchOn(MaxInFlight)

ToggleNext ==
  \/ StartCamera
  \/ UserMedia
  \/ Render
  \/ Cancel
  \/ RapidToggleTorch
  \/ ToggleSettled

ToggleSpec == Init /\ [][ToggleNext]_vars

(***************************************************************************)
(* One tick on its own: capture() and handleScan applied to every capture  *)
(* case, every frame of FrameOutcomes and every behaviour of the           *)
(* callbacks.                                                              *)
(***************************************************************************)
ReadyCase ==
  [ video |-> TRUE, readyState |-> 4, ctx |-> TRUE, drawOK |-> TRUE, readOK |-> TRUE ]

RunnerInputs ==
  [ c : {ReadyCase}, frame : FrameOutcomes, cb : Callbacks ]
  \cup [ c : CaptureCases, frame : {BlankFrame}, cb : {PageCallbacks} ]

RunnerInit ==
  /\ page = InitPage
  /\ pagePend = InitPage
  /\ scanner = Unmounted
  /\ scanPend = Unmounted
  /\ hist = NoHist
  /\ timers = {}
  /\ lookups = 0
  /\ toggles = <<>>
  /\ trackTorch = FALSE
  /\ lastScan = NoScan
  /\ lastStop = NoStop
  /\ lastToggle = NoToggle
  /\ runnerIn \in RunnerInputs
  /\ runnerOut = NoRun
  /\ filterIn = NoFrame
  /\ filterOut = NoRun

RunTick ==
  /\ ~runnerOut.valid
  /\ LET got == capture(runnerIn.c)
     IN  runnerOut' =
           [ valid |-> TRUE, onScan |-> got.onScan, threw |-> got.threw,
             run |-> IF got.onScan > 0
                     THEN handleScan(NoText, "", runnerIn.frame, runnerIn.cb)
                     ELSE EmptyRun(NoText, "") ]
  /\ UNCHANGED <<page, pagePend, scanner, scanPend, hist, timers, lookups,
                 toggles, trackTorch, lastScan, lastStop, lastToggle, runnerIn,
                 filterIn, filterOut>>

RunnerNext == RunTick

RunnerSpec == RunnerInit /\ [][RunnerNext]_vars

(***************************************************************************)
(* One frame on its own: each filter, and the strategies of handleScan,    *)
(* applied to every frame of Frames.                                       *)
(***************************************************************************)
FilterInit ==
  /\ page = InitPage
  /\ pagePend = InitPage
  /\ scanner = Unmounted
  /\ scanPend = Unmounted
  /\ hist = NoHist
  /\ timers = {}
  /\ lookups = 0
  /\ toggles = <<>>
  /\ trackTorch = FALSE
  /\ lastScan = NoScan
  /\ lastStop = NoStop
  /\ lastToggle = NoToggle
  /\ runnerIn = RunnerIdle
  /\ runnerOut = NoRun
  /\ filterIn \in [ valid : {TRUE}, image : Frames ]
  /\ filterOut = NoRun

\* the filter's result is all that changes
Filtered(out) ==
  /\ ~filterOut.valid
  /\ filterOut' = out
  /\ UNCHANGED <<page, pagePend, scanner, scanPend, hist, timers, lookups,
                 toggles, trackTorch, lastScan, lastStop, lastToggle, runnerIn,
                 runnerOut, filterIn>>

RunContrast ==
  Filtered([ valid |-> TRUE, op |-> "enhanceContrast",
             image |-> enhanceContrast(filterIn.image, Contrast) ])

RunSharpen ==
  Filtered([ valid |-> TRUE, op |-> "unsharpMask",
             image |-> unsharpMask(filterIn.image, SharpenAmount) ])

RunInvert ==
  Filtered([ valid |-> TRUE, op |-> "invertImageData",
             image |-> invertImageData(filterIn.image),
             twice |-> invertImageData(invertImageData(filterIn.image)) ])

RunThreshold ==
  \E windowSize \in WindowSizes, tPct \in Sensitivities :
    Filtered([ valid |-> TRUE, op |-> "adaptiveThresholdBradley",
               windowSize |-> windowSize, tPct |-> tPct,
               image |-> adaptiveThresholdBradley(filterIn.image, windowSize, tPct) ])

RunClose ==
  \E iterations \in 0..MaxIterations :
    Filtered([ valid |-> TRUE, op |-> "binaryClose", iterations |-> iterations,
               image |-> binaryClose(filterIn.image, iterations) ])

\* the filters the module exports
FilterNames ==
  {"enhanceContrast", "unsharpMask", "invertImageData",
   "adaptiveThresholdBradley", "binaryClose"}

\* one filter called on the frame itself: the frame as the call leaves it,
\* the result, and whether the result is another object than the frame
RunFilterOnFrame ==
  \E name \in FilterNames :
    LET r == ApplyFilter(name, <<filterIn.image>>, 1)
    IN  Filtered([ valid |-> TRUE, op |-> "filter", name |-> name,
                   inputAfter |-> r.heap[1], image |-> r.heap[r.id],
                   separate |-> r.id # 1 ])

RunStrategiesOnFrame ==
  LET r == RunFilters(<<filterIn.image>>, 1, <<>>, <<>>)
  IN  Filtered([ valid |-> TRUE, op |-> "strategies",
                 given |-> r.given, frameAfter |-> r.frameAfter ])

FilterNext ==
  \/ RunContrast
  \/ RunSharpen
  \/ RunInvert
  \/ RunThreshold
  \/ RunClose
  \/ RunFilterOnFrame
  \/ RunStrategiesOnFrame

FilterSpec == FilterInit /\ [][FilterNext]_vars

(***************************************************************************)
(* Claims.                                                                 *)
(***************************************************************************)
NoPayload == {"none", "empty", "decoderThrows"}

\* the order and the names the specification gives
NamedOrder ==
  <<"raw", "enhanced", "adaptive", "adaptive-close", "invert-adaptive",
    "fallback-jsqr">>

\* the callbacks of the run at hand return normally, and capture() got to onScan
PlainRun ==
  runnerOut.valid /\ runnerOut.onScan = 1 /\ runnerIn.cb = PageCallbacks

\* C1: in one scan session onResult is invoked at most once, and exactly
\* once when a frame decodes: after any frame handed to handleScan the
\* session has reported at most one result, and one if the frame decodes.
C1_ResultAtMostOnce ==
  lastScan.valid =>
    /\ lastScan.after.results <= 1
    /\ lastScan.decodable => lastScan.after.results = 1

\* C2: once the session has reported a result no capture tick, by the
\* timer or by the Capture button, hands a frame to handleScan again.
C2_NoFrameAfterResult ==
  lastScan.valid => lastScan.priorResults = 0

\* C3: a decoder that yields a payload at strategy k and none before it is
\* called exactly k+1 times, the payload is reported once under strategy
\* k's name, and neither a later strategy nor the fallback is attempted.
C3_ShortCircuit ==
  PlainRun =>
    \A k \in 0..4 :
      ( /\ runnerIn.frame[k + 1] \in Payloads
        /\ \A j \in 1..k : runnerIn.frame[j] \in NoPayload )
      => /\ Len(runnerOut.run.calls) = k + 1
         /\ runnerOut.run.attempts = SubSeq(NamedOrder, 1, k + 1)
         /\ runnerOut.run.reports =
              << [text |-> runnerIn.frame[k + 1], strategy |-> NamedOrder[k + 1]] >>
         /\ runnerOut.run.lastStrategy = NamedOrder[k + 1]

C3_Witness ==
  /\ PlainRun
  /\ \A j \in 1..4 : runnerIn.frame[j] = "none"
  /\ runnerIn.frame[5] = "QR1"
  /\ runnerIn.frame[6] = "QR1"
  /\ Len(runnerOut.run.calls) = 5
  /\ runnerOut.run.lastStrategy = "invert-adaptive"

\* C4: when the five strategies, each decoding with dontInvert, yield
\* nothing and the decoder yields a payload with attemptBoth, handleScan
\* makes exactly one sixth decoder call, on the untransformed frame with
\* attemptBoth, and reports the payload once as fallback-jsqr.
C4_Fallback ==
  ( /\ PlainRun
    /\ \A j \in 1..5 : runnerIn.frame[j] \in NoPayload
    /\ runnerIn.frame[6] \in Payloads )
  => /\ Len(runnerOut.run.calls) = 6
     /\ \A j \in 1..5 : runnerOut.run.calls[j].inversionAttempts = "dontInvert"
     /\ runnerOut.run.calls[6] =
          [ strategy |-> "fallback-jsqr", image |-> <<>>,
            inversionAttempts |-> "attemptBoth" ]
     /\ runnerOut.run.reports =
          << [text |-> runnerIn.frame[6], strategy |-> "fallback-jsqr"] >>
     /\ runnerOut.run.lastStrategy = "fallback-jsqr"

C4_Witness ==
  /\ PlainRun
  /\ \A j \in 1..5 : runnerIn.frame[j] = "none"
  /\ runnerIn.frame[6] = "QR1"
  /\ Len(runnerOut.run.reports) = 1
  /\ runnerOut.run.decoded = "QR1"

\* the first attempt from i on that yields a payload, or the fallback
RECURSIVE FirstPayloadFrom(_, _)
FirstPayloadFrom(frame, i) ==
  IF i >= 6 \/ frame[i] \in Payloads THEN i ELSE FirstPayloadFrom(frame, i + 1)

\* C5: when the decoder or a filter throws at strategy i, the strategies
\* after i and then the fallback are still attempted in order for the same
\* frame (up to the first that decodes), no error leaves handleScan, and a
\* frame that then decodes nowhere stops nothing.
C5_ThrowContinues ==
  PlainRun =>
    \A i \in 1..5 :
      ( /\ runnerIn.frame[i] \in {"decoderThrows", "filterThrows"}
        /\ \A j \in 1..i : runnerIn.frame[j] \notin Payloads )
      => /\ runnerOut.run.attempts =
              SubSeq(NamedOrder, 1, FirstPayloadFrom(runnerIn.frame, i + 1))
         /\ ~runnerOut.run.threw
         /\ (\A j \in 1..6 : runnerIn.frame[j] \notin Payloads)
              => runnerOut.run.stops = 0 /\ runnerOut.run.reports = <<>>

C5_Witness ==
  /\ PlainRun
  /\ runnerIn.frame[1] = "decoderThrows"
  /\ runnerIn.frame[2] = "filterThrows"
  /\ \A j \in 3..6 : runnerIn.frame[j] = "none"
  /\ Len(runnerOut.run.attempts) = 6

\* C6: a frame on which all five strategies and the fallback yield no
\* payload calls neither onResult nor onStop and leaves decoded,
\* lastStrategy, the timer and the lifecycle as they were, so that an armed
\* session stays armed.
C6_FailedFrameKeepsSession ==
  (lastScan.valid /\ ~lastScan.decodable)
  => /\ lastScan.reports = <<>>
     /\ lastScan.stops = 0
     /\ lastScan.after = lastScan.before

C6_Witness ==
  /\ lastScan.valid /\ ~lastScan.decodable
  /\ lastScan.before.lifecycle = "armed"
  /\ lastScan.after.lifecycle = "armed"
  /\ lastScan.after.timers # {}
  /\ lastScan.after.decoded = NoText

\* C7: stop() on an armed session terminates it without reporting a
\* result, and after stop() no capture tick hands a frame to handleScan.
C7_StopEndsSession ==
  /\ lastStop.valid =>
       /\ lastStop.after.lifecycle = "terminated"
       /\ lastStop.after.results = lastStop.before.results
  /\ lastScan.valid => ~lastScan.priorStopped

\* C8: stop() called on a terminated session, or again after an earlier
\* stop() of the same session, leaves the lifecycle, the timer, decoded and
\* lastStrategy as they were.
C8_StopIdempotent ==
  ( /\ lastStop.valid
    /\ lastStop.earlier \/ lastStop.before.lifecycle = "terminated" )
  => lastStop.after = lastStop.before

C8_Witness ==
  /\ lastStop.valid
  /\ lastStop.earlier
  /\ lastStop.before.lifecycle = "terminated"
  /\ lastStop.after.lifecycle = "terminated"

\* C9: in every reachable state at most one capture timer is live, and it
\* is the one the mounted WebcamCapture's effect holds.
C9_OneTimer ==
  /\ Cardinality(timers) <= 1
  /\ timers \subseteq (IF scanner.mounted THEN {scanner.timer} ELSE {})

\* the effect has re-run in a mounted scanner, for the stream and for the torch
C9_Witness ==
  /\ scanner.mounted
  /\ scanner.stream
  /\ scanner.torchOn
  /\ timers = {scanner.timer}

\* the capture case of the claim's second outcome
FrameRead ==
  /\ runnerIn.c.video
  /\ runnerIn.c.readyState >= 2
  /\ runnerIn.c.ctx
  /\ runnerIn.c.drawOK
  /\ runnerIn.c.readOK

\* C10: on a capture tick, when the video is absent or not ready
\* (readyState < 2), there is no drawing context, or drawing or reading the
\* pixels throws, onScan is not called and no error leaves capture();
\* otherwise onScan is called exactly once.
C10_CaptureTick ==
  runnerOut.valid =>
    IF FrameRead THEN runnerOut.onScan = 1
    ELSE runnerOut.onScan = 0 /\ ~runnerOut.threw

C10_Witness ==
  /\ runnerOut.valid
  /\ runnerIn.c.video /\ runnerIn.c.readyState = 2 /\ runnerIn.c.ctx
  /\ runnerIn.c.drawOK /\ ~runnerIn.c.readOK
  /\ runnerOut.onScan = 0

\* a step in which toggleTorch runs, up to its await or after it
TorchToggleStep == lastToggle'.valid

\* a render that commits a flipped torchOn in a scanner that stays mounted
TorchCommitStep ==
  scanner.mounted /\ scanner'.mounted /\ scanner'.torchOn # scanner.torchOn

C12_TorchBestEffort ==
  lastToggle.valid =>
    /\ ~lastToggle.threw
    /\ lastToggle.outcome \in {"noTrack", "noApplyConstraints", "rejected"}
         => lastToggle.after = lastToggle.before
    /\ lastToggle.after # lastToggle.before => lastToggle.outcome = "resolved"

\* the torch is on and a further toggle is rejected
C12_Witness ==
  /\ lastToggle.valid
  /\ lastToggle.outcome = "rejected"
  /\ lastToggle.before
  /\ scanPend.torchOn

\* C13: whatever the strategies make of a frame, its pixels are after each
\* attempt what they were before handleScan: every transforming strategy
\* works on a copy, and the raw attempt and the fallback decode are given
\* the untransformed frame.
C13_FrameUnchanged ==
  (filterOut.valid /\ filterOut.op = "strategies")
  => /\ \A i \in 1..6 : filterOut.frameAfter[i] = filterIn.image
     /\ filterOut.given[1] = filterIn.image
     /\ filterOut.given[6] = filterIn.image

\* the enhanced strategy changed the pixels of its copy
C13_Witness ==
  /\ filterOut.valid /\ filterOut.op = "strategies"
  /\ filterOut.given[2] # filterIn.image
  /\ filterOut.given[5] # filterIn.image
  /\ filterOut.frameAfter[6] = filterIn.image

\* the images a filter run has produced
Produced ==
  IF filterOut.op = "strategies"
  THEN { filterOut.given[i] : i \in 1..6 }
  ELSE IF filterOut.op = "invertImageData"
  THEN { filterOut.image, filterOut.twice }
  ELSE { filterOut.image }

\* the values of channel c on the four sides of place p, the border repeated
SideValues(img, p, c) ==
  LET w == img.width
      h == img.height
      x == XOf(p, w)
      y == YOf(p, w)
      left == IF x = 0 THEN 0 ELSE x - 1
      right == IF x = w - 1 THEN x ELSE x + 1
      up == IF y = 0 THEN 0 ELSE y - 1
      down == IF y = h - 1 THEN y ELSE y + 1
  IN  { img.data[up * w + x + 1][c], img.data[down * w + x + 1][c],
        img.data[y * w + left + 1][c], img.data[y * w + right + 1][c] }

\* C14: every channel value a filter puts out is an integer in 0..255, and
\* a result beyond the range is saturated, not wrapped: raising the
\* contrast (36) moves no value above 128 down and none below 128 up, and
\* sharpening (amount 1) moves no value that is the largest among its four
\* sides down and none that is the smallest up.
C14_Clamped ==
  filterOut.valid =>
    /\ \A img \in Produced :
         \A p \in DOMAIN img.data : \A c \in 1..4 : img.data[p][c] \in 0..255
    /\ filterOut.op = "enhanceContrast" =>
         \A p \in DOMAIN filterIn.image.data : \A c \in 1..3 :
           LET in == filterIn.image.data[p][c]
               out == filterOut.image.data[p][c]
           IN  /\ in >= 128 => out >= in
               /\ in <= 128 => out <= in
    /\ filterOut.op = "unsharpMask" =>
         \A p \in DOMAIN filterIn.image.data : \A c \in 1..3 :
           LET in == filterIn.image.data[p][c]
               out == filterOut.image.data[p][c]
               sides == SideValues(filterIn.image, p, c)
           IN  /\ (\A v \in sides : in >= v) => out >= in
               /\ (\A v \in sides : in <= v) => out <= in

\* a white pixel among black ones is sharpened: 5 * 255 is held at 255 and
\* the pixel beside it, at -255, is held at 0
C14_Witness ==
  /\ filterOut.valid /\ filterOut.op = "unsharpMask"
  /\ filterIn.image = SpotFrame(3, 3, 5, Opaque(0), Opaque(255))
  /\ filterOut.image.data[5] = Opaque(255)
  /\ filterOut.image.data[4] = Opaque(0)

\* C15: inverting a frame twice gives a frame of the same width and height
\* with the same R, G, B and A at every pixel.
C15_InvertInvolution ==
  (filterOut.valid /\ filterOut.op = "invertImageData")
  => /\ filterOut.twice.width = filterIn.image.width
     /\ filterOut.twice.height = filterIn.image.height
     /\ filterOut.twice.data = filterIn.image.data

\* a frame with a translucent pixel, which one invert does change
C15_Witness ==
  /\ filterOut.valid /\ filterOut.op = "invertImageData"
  /\ \E p \in DOMAIN filterIn.image.data : filterIn.image.data[p][4] # 255
  /\ filterOut.image.data # filterIn.image.data
  /\ filterOut.twice = filterIn.image

\* C16: whatever the frame, the window size and the sensitivity, every
\* pixel the adaptive threshold puts out has R = G = B, and that value is 0
\* or 255.
C16_ThresholdBinary ==
  (filterOut.valid /\ filterOut.op = "adaptiveThresholdBradley")
  => \A p \in DOMAIN filterOut.image.data :
       LET px == filterOut.image.data[p]
       IN  /\ px[1] = px[2] /\ px[2] = px[3]
           /\ px[1] \in {0, 255}

\* a frame of grays that comes out part black, part white
C16_Witness ==
  /\ filterOut.valid /\ filterOut.op = "adaptiveThresholdBradley"
  /\ \E p \in DOMAIN filterIn.image.data : filterIn.image.data[p] = Opaque(129)
  /\ \E p \in DOMAIN filterOut.image.data : filterOut.image.data[p][1] = 0
  /\ \E p \in DOMAIN filterOut.image.data : filterOut.image.data[p][1] = 255

\* all pixels of the frame have one colour
Uniform(img) == \A p \in DOMAIN img.data : img.data[p] = img.data[1]

\* C17: a frame whose pixels all have the same colour comes out of the
\* adaptive threshold (window 41, t = 0.12, and the other windows and
\* sensitivities of the model as well) white at every pixel, whether the
\* pixel's window is clipped by the border or not.
C17_UniformStaysWhite ==
  ( /\ filterOut.valid /\ filterOut.op = "adaptiveThresholdBradley"
    /\ Uniform(filterIn.image) )
  => \A p \in DOMAIN filterOut.image.data :
       filterOut.image.data[p] = <<255, 255, 255, 255>>

\* the all-white frame of the largest size under 41 / 0.12
C17_Witness ==
  /\ filterOut.valid /\ filterOut.op = "adaptiveThresholdBradley"
  /\ filterOut.windowSize = 41 /\ filterOut.tPct = 12
  /\ filterIn.image.width = MaxSide /\ filterIn.image.height = MaxSide
  /\ \A p \in DOMAIN filterIn.image.data :
       filterIn.image.data[p] = <<255, 255, 255, 255>>
  /\ \A p \in DOMAIN filterOut.image.data :
       filterOut.image.data[p] = <<255, 255, 255, 255>>

\* every pixel is pure black or pure white
BlackAndWhite(img) ==
  \A p \in DOMAIN img.data :
    /\ img.data[p][1] \in {0, 255}
    /\ img.data[p][2] = img.data[p][1]
    /\ img.data[p][3] = img.data[p][1]

\* C18: binary close with iterations = 0 puts out the frame thresholded at
\* 128 (R above 128 is white, otherwise black) with no pixel changed by its
\* neighbours, so that a pure black and white frame keeps its R, G and B.
C18_CloseZeroIdentity ==
  ( /\ filterOut.valid /\ filterOut.op = "binaryClose"
    /\ filterOut.iterations = 0 )
  => /\ filterOut.image.width = filterIn.image.width
     /\ filterOut.image.height = filterIn.image.height
     /\ \A p \in DOMAIN filterIn.image.data :
          filterOut.image.data[p] =
            IF filterIn.image.data[p][1] > 128 THEN <<255, 255, 255, 255>>
            ELSE <<0, 0, 0, 255>>
     /\ BlackAndWhite(filterIn.image)
          => \A p \in DOMAIN filterIn.image.data : \A c \in 1..3 :
               filterOut.image.data[p][c] = filterIn.image.data[p][c]

\* a black pixel among white ones, which one iteration would fill
C18_Witness ==
  /\ filterOut.valid /\ filterOut.op = "binaryClose"
  /\ filterOut.iterations = 0
  /\ filterIn.image = SpotFrame(3, 3, 5, Opaque(255), Opaque(0))
  /\ filterOut.image = filterIn.image

\* the names of a sequence of decoder calls
CallNames(calls) == [j \in 1..Len(calls) |-> calls[j].strategy]

\* the attempts of a frame that get as far as the decoder: all but those
\* whose filter throws
RECURSIVE ReachDecoder(_, _, _)
ReachDecoder(frame, j, n) ==
  IF j > n THEN <<>>
  ELSE (IF frame[j] = "filterThrows" THEN <<>> ELSE <<NamedOrder[j]>>)
       \o ReachDecoder(frame, j + 1, n)

\* C19 as stated: for every frame the sequence of decoder invocations is a
\* prefix of raw, enhanced, adaptive, adaptive-close, invert-adaptive,
\* fallback, each of the first five calls made with dontInvert and only the
\* fallback with attemptBoth.
C19_CallsArePrefix ==
  (runnerOut.valid /\ runnerOut.onScan = 1)
  => LET calls == runnerOut.run.calls
     IN  /\ Len(calls) <= FallbackIndex
         /\ CallNames(calls) = SubSeq(NamedOrder, 1, Len(calls))
         /\ \A j \in 1..Len(calls) :
              calls[j].inversionAttempts =
                IF j <= NumStrategies THEN "dontInvert" ELSE "attemptBoth"

\* C19 amended: for every frame the strategies attempted are a prefix of
\* raw, enhanced, adaptive, adaptive-close, invert-adaptive, fallback, none
\* twice or out of order; the decoder invocations are those attempts, in
\* the same order, less the strategies whose filter threw before the
\* decoder was reached; each call of the five strategies is made with
\* dontInvert on the strategy's own image and only the fallback's call with
\* attemptBoth, on the input frame.
C19_AttemptsArePrefix ==
  (runnerOut.valid /\ runnerOut.onScan = 1)
  => LET calls == runnerOut.run.calls
         attempts == runnerOut.run.attempts
     IN  /\ Len(attempts) <= FallbackIndex
         /\ attempts = SubSeq(NamedOrder, 1, Len(attempts))
         /\ CallNames(calls) = ReachDecoder(runnerIn.frame, 1, Len(attempts))
         /\ \A j \in 1..Len(calls) :
              \E i \in 1..FallbackIndex :
                /\ calls[j].strategy = NamedOrder[i]
                /\ calls[j].inversionAttempts =
                     IF i = FallbackIndex THEN "attemptBoth" ELSE "dontInvert"
                /\ calls[j].image =
                     IF i = FallbackIndex THEN <<>> ELSE StrategyChain[i]

\* the filter of the second strategy throws: the decoder is called for raw
\* and then for adaptive
C19_Witness ==
  /\ PlainRun
  /\ runnerIn.frame[1] = "none"
  /\ runnerIn.frame[2] = "filterThrows"
  /\ \A j \in 3..6 : runnerIn.frame[j] = "none"
  /\ runnerOut.run.attempts = NamedOrder
  /\ CallNames(runnerOut.run.calls) =
       <<"raw", "adaptive", "adaptive-close", "invert-adaptive", "fallback-jsqr">>
  /\ runnerOut.run.calls[5].inversionAttempts = "attemptBoth"

\* C20: no exception leaves handleScan, whatever the decoder or a filter
\* throws on any strategy or on the fallback (and whatever the callbacks
\* throw).
C20_NothingPropagates ==
  (runnerOut.valid /\ runnerOut.onScan = 1) => ~runnerOut.run.threw

\* every attempt of the frame throws
C20_Witness ==
  /\ PlainRun
  /\ runnerIn.frame[1] = "decoderThrows"
  /\ \A j \in 2..5 : runnerIn.frame[j] = "filterThrows"
  /\ runnerIn.frame[6] = "decoderThrows"
  /\ Len(runnerOut.run.attempts) = 6
  /\ Len(runnerOut.run.calls) = 2
  /\ ~runnerOut.run.threw

\* C21: the result callback is never invoked with an empty string; a
\* decoder return that is null or has empty data counts as a failed
\* attempt, after which the next strategy, or the fallback, is tried.
C21_NoEmptyResult ==
  (runnerOut.valid /\ runnerOut.onScan = 1)
  => /\ \A j \in 1..Len(runnerOut.run.reports) :
          /\ runnerOut.run.reports[j].text # ""
          /\ runnerOut.run.reports[j].text \in Payloads
     /\ runnerOut.run.decoded # ""
     /\ \A i \in 1..NumStrategies :
          (\A j \in 1..i : runnerIn.frame[j] \in {"none", "empty"})
          => /\ Len(runnerOut.run.attempts) >= i + 1
             /\ runnerOut.run.attempts[i + 1] = NamedOrder[i + 1]

\* empty data from raw, null from enhanced, a payload from adaptive
C21_Witness ==
  /\ PlainRun
  /\ runnerIn.frame[1] = "empty"
  /\ runnerIn.frame[2] = "none"
  /\ runnerIn.frame[3] = "QR1"
  /\ runnerOut.run.reports = << [text |-> "QR1", strategy |-> "adaptive"] >>
  /\ Len(runnerOut.run.calls) = 3

\* C22: the capture timer is the only source of frames: no frame reaches
\* handleScan other than by a timer tick (so that between two consecutive
\* ticks at most one frame, that of the earlier tick, is delivered).
C22_TimerOnlySource ==
  lastScan.valid => lastScan.source = "timer"

\* applyConstraints of a toggle settles when the session it was started
\* in has been stopped: its stop is queued or its scanner is gone
LateSettleStep ==
  /\ lastToggle'.valid
  /\ lastToggle'.outcome \in {"resolved", "rejected"}
  /\ ~lastToggle'.live \/ ~pagePend.scanning

\* the render that commits a torchOn flipped on a stopped session
LateCommitStep ==
  /\ scanner.mounted /\ ~pagePend.scanning
  /\ scanPend.torchOn # scanner.torchOn
  /\ scanner' # scanner

\* C23: a torch toggle that settles, resolved or rejected, after the session
\* was stopped creates no capture timer, delivers no frame and calls
\* neither the result nor the stop callback, in the step that settles it
\* and in the render that follows; the state of a scanner that is gone, or
\* of the scanner of a later session, is not touched.
C23_LateToggleNoEffect ==
  [][ /\ LateSettleStep
         => /\ timers' = timers
            /\ lastScan' = NoScan
            /\ hist' = hist
            /\ lastStop' = NoStop
            /\ page' = page /\ pagePend' = pagePend
            /\ scanner' = scanner
            /\ ~lastToggle'.live => scanPend' = scanPend
      /\ LateCommitStep
         => /\ ~scanner'.mounted
            /\ timers' \subseteq timers
            /\ scanner.timer \notin timers'
            /\ ~pagePend'.scanning ]_vars

\* a toggle has resolved between the stop of the session and the render
\* that unmounts its scanner
C23_Witness ==
  /\ lastToggle.valid /\ lastToggle.outcome = "resolved"
  /\ scanner.mounted /\ ~pagePend.scanning
  /\ hist.results = 1
  /\ scanPend.torchOn # scanner.torchOn
  /\ timers = {scanner.timer}

\* C24: every filter is side-effect-free on its input: each of
\* enhanceContrast, unsharpMask, invertImageData, adaptiveThresholdBradley
\* and binaryClose leaves the pixels of the frame passed to it unchanged
\* and delivers its result in a separate frame.
C24_FiltersPure ==
  (filterOut.valid /\ filterOut.op = "filter")
  => /\ filterOut.inputAfter = filterIn.image
     /\ filterOut.separate

Abs(n) == IF n < 0 THEN -n ELSE n

\* the pixels of the image within reach pixels of (x, y) in both directions
SquareAround(w, h, x, y, reach) ==
  { q \in 1..(w * h) : Abs(XOf(q, w) - x) <= reach /\ Abs(YOf(q, w) - y) <= reach }

\* the pixels of the image inside the square of the given side centred on
\* the pixel (x, y)
CentredSquare(w, h, x, y, side) ==
  { q \in 1..(w * h) :
      2 * Abs(XOf(q, w) - x) < side /\ 2 * Abs(YOf(q, w) - y) < side }

RECURSIVE DirectSum(_, _)
DirectSum(gray, S) ==
  IF S = {} THEN 0
  ELSE LET q == CHOOSE q \in S : TRUE
       IN  gray[q] + DirectSum(gray, S \ {q})

\* the threshold agrees with the reference that sums Window(x, y)
\* directly: the table's sum, the divisor and the pixel put out
AgreesWithReference(Window(_, _)) ==
  LET img == filterIn.image
      w == img.width
      h == img.height
      gray == GrayArray(img)
      integral == Integral(gray, w, h)
  IN  \A p \in DOMAIN img.data :
        LET x == XOf(p, w)
            y == YOf(p, w)
            S == Window(x, y)
            direct == DirectSum(gray, S)
            black == gray[p] * Cardinality(S) * 100
                       < direct * (100 - filterOut.tPct)
        IN  /\ WindowSum(integral, w, h, x, y, filterOut.windowSize) = direct
            /\ WindowCount(w, h, x, y, filterOut.windowSize) = Cardinality(S)
            /\ filterOut.image.data[p] =
                 IF black THEN <<0, 0, 0, 255>> ELSE <<255, 255, 255, 255>>

EdgeDistance(img, p) ==
  LET x == XOf(p, img.width)
      y == YOf(p, img.width)
  IN  Min(Min(x, img.width - 1 - x), Min(y, img.height - 1 - y))

\* C26: for every frame and every number n >= 0 of iterations, a pixel
\* that is on in the thresholded input (R above 128) and lies at least n
\* pixels away from every edge of the image is white in the output of
\* binaryClose(frame, n).
C26_CloseKeepsInnerPixels ==
  (filterOut.valid /\ filterOut.op = "binaryClose")
  => \A p \in DOMAIN filterIn.image.data :
       ( /\ filterIn.image.data[p][1] > 128
         /\ EdgeDistance(filterIn.image, p) >= filterOut.iterations )
       => filterOut.image.data[p] = <<255, 255, 255, 255>>

\* a lone white pixel MaxIterations away from every edge survives
\* MaxIterations iterations, and nothing else comes out white
C26_Witness ==
  /\ filterOut.valid /\ filterOut.op = "binaryClose"
  /\ filterOut.iterations = MaxIterations
  /\ \E k \in DOMAIN filterIn.image.data :
       /\ filterIn.image = SpotFrame(DeepSide, DeepSide, k, Opaque(0), Opaque(255))
       /\ EdgeDistance(filterIn.image, k) = MaxIterations
       /\ filterOut.image = filterIn.image

\* C27: for iterations >= 1 every pixel of the outermost rows and columns
\* is black in the output of binaryClose, whatever the input.
C27_CloseBlackensBorder ==
  (filterOut.valid /\ filterOut.op = "binaryClose" /\ filterOut.iterations >= 1)
  => \A p \in DOMAIN filterIn.image.data :
       EdgeDistance(filterIn.image, p) = 0
       => filterOut.image.data[p] = <<0, 0, 0, 255>>

\* an all-white 3 x 3 frame closed once: only the centre stays white
C27_Witness ==
  /\ filterOut.valid /\ filterOut.op = "binaryClose"
  /\ filterOut.iterations = 1
  /\ filterIn.image = SpotFrame(3, 3, 5, Opaque(255), Opaque(255))
  /\ filterOut.image = SpotFrame(3, 3, 5, Opaque(0), Opaque(255))

\* C28: within one handleScan call the result callback is invoked at most
\* once and the stop notification at most once, for every behaviour of the
\* decoder and also when the result callback or the stop notification
\* throws.
C28_CallbacksAtMostOnce ==
  (runnerOut.valid /\ runnerOut.onScan = 1)
  => /\ Len(runnerOut.run.reports) <= 1
     /\ runnerOut.run.stops <= 1

\* C29: after any sequence of torch toggles, resolving in any order, a
\* second one issued before the first has resolved included, whenever no
\* toggle is in flight and the flag is rendered, torchOn equals the torch
\* value last applied successfully to the camera track.
C29_TorchOnMatchesTrack ==
  ( /\ scanner.mounted
    /\ toggles = <<>>
    /\ scanPend.torchOn = scanner.torchOn )
  => scanner.torchOn = trackTorch

\* a lookup completes while a scanner is mounted and armed that has
\* reported nothing: the lookup was started by a result of an earlier
\* session
StaleLookupStep ==
  /\ lookups' = lookups - 1
  /\ scanner.mounted /\ hist.results = 0
  /\ pagePend.scanning /\ pagePend.decoded = NoText

\* C30: an item lookup started by an earlier scan result that completes
\* after the page was reset and a new session was started leaves the new
\* session alone: it does not clear scanning and sets no found item.
C30_StaleLookupIgnored ==
  [][ StaleLookupStep
      => /\ pagePend'.scanning = pagePend.scanning
         /\ pagePend'.found = pagePend.found
         /\ pagePend'.resultOpen = pagePend.resultOpen ]_vars

====
